---------------------------- MODULE Spec2Model ----------------------------
(***************************************************************************)
(* A model of the YNAB4 importer (src/importer.js).                        *)
(*                                                                         *)
(* doImport runs five stages over one legacy document `data`, threading    *)
(* the Identifier Registry `entityIdMap` through them.  Every `await` of   *)
(* the source is a scheduling point: an action of this model is one        *)
(* synchronous segment of the JavaScript code, from the return of one      *)
(* awaited Ledger call to the next await.  The Ledger (the @actual-app/api *)
(* package) is external; it performs a call at some moment between the     *)
(* call being issued and its promise resolving, and the model performs the *)
(* Ledger's effect in the step in which the call returns.                  *)
(***************************************************************************)
EXTENDS Integers, Sequences, FiniteSets, TLC

VARIABLES
    data,            \* the parsed Budget.yfull document (read-only input)
    entityIdMap,     \* the Identifier Registry: legacy id -> target id
    nextId,          \* source of fresh ids (Ledger ids and uuid.v4())
    stage,           \* position of doImport
    error,           \* the error doImport rejected with, or "none"
    stageLog,        \* the stages entered so far, in order
    acctPending,     \* importAccounts: indexes of createAccount calls in flight
    groupTasks,      \* importCategories: per master category, the task's position
    catInflight,     \* importCategories: per master category, createCategory calls in flight
    payeePos,        \* importPayees: index of the createPayee call in flight
    fetched,         \* importTransactions: the lists fetched from the Ledger
    txPending,       \* importTransactions: addTransactions calls in flight
    budgets,         \* importBudgets: data.monthlyBudgets sorted by month
    monthIdx,        \* importBudgets: index in budgets of the month being replayed
    budgetTasks,     \* importBudgets: per-entry tasks with a Ledger call in flight
    carryoverFlags,  \* importBudgets: the carryoverFlags object
    lAccounts,       \* Ledger: accounts
    lGroups,         \* Ledger: category groups
    lCategories,     \* Ledger: categories, top of the list first
    lPayees,         \* Ledger: payees
    lBatches,        \* Ledger: the insert-transactions-batch calls performed
    lBudget,         \* Ledger: set-budget-amount calls performed
    lCarryover,      \* Ledger: set-budget-carryover calls performed
    issued,          \* history: every Ledger call issued so far
    processed,       \* history: budget entries whose carryover step has run
    files,           \* findLatestDevice: the device metadata files
    selected         \* findLatestDevice: its outcome

pipeVars == <<data, entityIdMap, nextId, stage, error, stageLog, acctPending,
              groupTasks, catInflight, payeePos, fetched, txPending, budgets,
              monthIdx, budgetTasks, carryoverFlags, lAccounts, lGroups,
              lCategories, lPayees, lBatches, lBudget, lCarryover, issued,
              processed>>

devVars == <<files, selected>>

vars == <<pipeVars, devVars>>

(***************************************************************************)
(* Values.  JavaScript's null and undefined are distinct values (=== tells *)
(* them apart, both are falsy); target ids are positive integers.          *)
(***************************************************************************)
Null == 0
Undefined == -1

Truthy(v) == v > 0

\* `x || null`
OrNull(v) == IF Truthy(v) THEN v ELSE Null

\* A field the document does not carry (JSON null or no such key).
Missing == "<missing>"

SplitCategory == "Category/__Split__"
ImmediateIncome == "Category/__ImmediateIncome__"
DeferredIncome == "Category/__DeferredIncome__"

(***************************************************************************)
(* Bounds of the explored inputs.                                          *)
(***************************************************************************)
MaxSubs == 2      \* subcategories of the varied master category
MaxMonths == 3    \* months of the varied monthly budgets
MaxFiles == 3     \* device metadata files
MaxVersion == 2   \* largest version number in a knowledge string

(***************************************************************************)
(* Utils                                                                   *)
(***************************************************************************)

\* mapAccountType
mapAccountType(type) ==
    CASE type \in {"Cash", "Checking"} -> "checking"
      [] type = "CreditCard" -> "credit"
      [] type = "Savings" -> "savings"
      [] type = "InvestmentAccount" -> "investment"
      [] type = "Mortgage" -> "mortgage"
      [] OTHER -> "other"

\* sortByKey: a copy of arr sorted ascending by item[key]; Array.prototype.sort
\* is stable, so the result is the one permutation that orders equal keys by
\* their input position.
SortRank(arr, key, i) ==
    1 + Cardinality({j \in 1..Len(arr) :
                        \/ arr[j][key] < arr[i][key]
                        \/ arr[j][key] = arr[i][key] /\ j < i})

SortByKey(arr, key) ==
    [k \in 1..Len(arr) |->
        arr[CHOOSE i \in 1..Len(arr) : SortRank(arr, key, i) = k]]

\* Array.prototype.reverse
Reverse(arr) == [k \in 1..Len(arr) |-> arr[Len(arr) + 1 - k]]

\* monthFromDate: dates are yyyymmdd numbers (the ISO string without dashes,
\* which orders as the string does); the month is the date without its day.
monthFromDate(date) == date \div 100

\* amountToInteger (actual.utils): currency units to minor units.
amountToInteger(n) == n * 100

\* Map.prototype.get
Get(map, id) == IF id \in DOMAIN map THEN map[id] ELSE Undefined

\* Map.prototype.set
Set(map, id, v) == [k \in DOMAIN map \cup {id} |-> IF k = id THEN v ELSE map[k]]

Range(s) == {s[i] : i \in 1..Len(s)}


(***************************************************************************)
(* The legacy document.  Records carry the fields the importer reads.      *)
(***************************************************************************)
Account(id, onBudget, tomb) ==
    [entityId |-> id, accountType |-> "Checking", accountName |-> id,
     onBudget |-> onBudget, hidden |-> FALSE, isTombstone |-> tomb]

SubCategory(id, master, idx, tomb) ==
    [entityId |-> id, name |-> id, masterCategoryId |-> master,
     sortableIndex |-> idx, isTombstone |-> tomb]

MasterCategory(id, type, idx, tomb, subs) ==
    [entityId |-> id, name |-> id, type |-> type, sortableIndex |-> idx,
     isTombstone |-> tomb, subCategories |-> subs]

Payee(id, target, tomb) ==
    [entityId |-> id, name |-> id, autoFillCategoryId |-> Missing,
     targetAccountId |-> target, isTombstone |-> tomb]

SubTransaction(cat, tomb) ==
    [amount |-> 1, categoryId |-> cat, isTombstone |-> tomb]

Transaction(id, acct, tomb, transfer, target, payee, cat, subs) ==
    [entityId |-> id, accountId |-> acct, isTombstone |-> tomb,
     transferTransactionId |-> transfer, targetAccountId |-> target,
     payeeId |-> payee, categoryId |-> cat, amount |-> 2, date |-> 20200115,
     subTransactions |-> subs]

BudgetEntry(cat, budgeted, tomb, handling) ==
    [categoryId |-> cat, budgeted |-> budgeted, isTombstone |-> tomb,
     overspendingHandling |-> handling]

MonthlyBudget(date, entries) ==
    [month |-> date, monthlySubCategoryBudgets |-> entries]

Document(accounts, masters, payees, transactions, months) ==
    [accounts |-> accounts, masterCategories |-> masters, payees |-> payees,
     transactions |-> transactions, monthlyBudgets |-> months]

\* The first day of the k-th month of the model's year.
MonthDate(k) == 20200001 + 100 * k

(***************************************************************************)
(* The documents explored.  Each family varies one part of the document    *)
(* over every combination of the cases its stage distinguishes, and keeps  *)
(* the other parts at a standard value.  Entity ids are unique within a    *)
(* document, a month holds at most one entry per category, and months are  *)
(* distinct, as in every file YNAB4 writes.                                *)
(***************************************************************************)
StdAccounts == <<Account("a1", TRUE, FALSE), Account("a2", FALSE, FALSE)>>

StdMasters ==
    <<MasterCategory("m1", "OUTFLOW", 1, FALSE,
         <<SubCategory("c1", "m1", 1, FALSE), SubCategory("c2", "m1", 2, FALSE)>>),
      MasterCategory("m2", "INFLOW", 2, FALSE,
         <<SubCategory("c9", "m2", 1, FALSE)>>)>>

StdPayees == <<Payee("p1", Missing, FALSE)>>

StdMonths == <<MonthlyBudget(MonthDate(1), <<>>)>>

\* Categories: master category m1 with 0..MaxSubs subcategories, every
\* tombstone pattern and every assignment of sort indexes (ties included);
\* master category m2 with one live subcategory; either master first.
SubIds == <<"c1", "c2", "c3", "c4">>

VariedSubs(n, tombs, idx) ==
    [i \in 1..n |-> SubCategory(SubIds[i], "m1", idx[i], tombs[i])]

VariedSubLists ==
    UNION {{VariedSubs(n, tombs, idx) :
               tombs \in [1..n -> BOOLEAN], idx \in [1..n -> 1..n]} :
           n \in 0..MaxSubs}

CategoryDocs ==
    {Document(StdAccounts,
              <<MasterCategory("m1", type1, i1, tomb1, subs),
                MasterCategory("m2", type2, 3 - i1, FALSE,
                               <<SubCategory("c9", "m2", 1, FALSE)>>)>>,
              StdPayees, <<>>, StdMonths) :
        type1 \in {"OUTFLOW", "INFLOW"}, type2 \in {"OUTFLOW", "INFLOW"},
        i1 \in {1, 2}, tomb1 \in BOOLEAN, subs \in VariedSubLists}

\* Budgets: in each of MaxMonths months the entry of category c1 is absent,
\* tombstoned, or live with one of the three markers; category c2 has a
\* Confined entry in the first month or no entry at all; the first month
\* holds an entry of c9, which no stage maps; the months come in ascending
\* or in descending order.
Shapes == {"absent", "tomb", "plain", "Confined", "AffectsBuffer"}

EntryOf(cat, shape) ==
    CASE shape = "absent" -> <<>>
      [] shape = "tomb" -> <<BudgetEntry(cat, 3, TRUE, "Confined")>>
      [] shape = "plain" -> <<BudgetEntry(cat, 7, FALSE, Missing)>>
      [] OTHER -> <<BudgetEntry(cat, 7, FALSE, shape)>>

VariedMonth(k, shape1, shape2) ==
    MonthlyBudget(MonthDate(k),
        EntryOf("c1", shape1)
        \o (IF k = 1 THEN EntryOf("c2", shape2) \o EntryOf("c9", "plain")
                     ELSE <<>>))

VariedMonths(f, shape2, desc) ==
    [k \in 1..MaxMonths |->
        LET j == IF desc THEN MaxMonths + 1 - k ELSE k
        IN  VariedMonth(j, f[j], shape2)]

BudgetDocs ==
    {Document(StdAccounts, StdMasters, StdPayees, <<>>,
              VariedMonths(f, shape2, desc)) :
        f \in [1..MaxMonths -> Shapes], shape2 \in {"absent", "Confined"},
        desc \in BOOLEAN}

\* Transactions, categories: t1 in account a1 and t2 in account a2, which is
\* on budget, off budget or tombstoned; each with every kind of categoryId;
\* t1 with no subTransactions field or with no, one or two split lines, the
\* second of the two tombstoned; t2 with one split line.
CategoryRefs ==
    {Missing, SplitCategory, ImmediateIncome, DeferredIncome, "c1", "c9"}

SplitLists ==
    {<<>>, <<SubTransaction("c1", FALSE)>>,
     <<SubTransaction(ImmediateIncome, FALSE), SubTransaction(Missing, TRUE)>>}

\* A transaction with or without its subTransactions field.
SplitShapes ==
    {[has |-> FALSE, subs |-> <<>>]}
    \cup {[has |-> TRUE, subs |-> subs] : subs \in SplitLists}

WithSplits(transaction, shape) ==
    IF shape.has THEN [transaction EXCEPT !.subTransactions = shape.subs]
    ELSE [k \in DOMAIN transaction \ {"subTransactions"} |-> transaction[k]]

AccountKinds == {"on", "off", "tomb"}

KindAccounts(kind) ==
    <<Account("a1", TRUE, FALSE), Account("a2", kind = "on", kind = "tomb")>>

TxCategoryDocs ==
    {Document(KindAccounts(kind), StdMasters, StdPayees,
              <<WithSplits(Transaction("t1", "a1", FALSE, Missing, Missing,
                                       "p1", cat1, <<>>), shape),
                Transaction("t2", "a2", tomb2, Missing, Missing, "p1", cat2,
                            <<SubTransaction("c1", FALSE)>>)>>,
              StdMonths) :
        kind \in AccountKinds, cat1 \in CategoryRefs, cat2 \in CategoryRefs,
        shape \in SplitShapes, tomb2 \in BOOLEAN}

\* Transactions, transfers: t1 in a1 names t2, a transaction that does not
\* exist, or nothing as its transfer counterpart; t2 in a2 names t1 or
\* nothing; either may be tombstoned (t2 comes first in the list in half
\* of the documents); the transfer payees towards a2 and towards a1 exist,
\* are tombstoned or are missing.
TransferPayees(live2, has1) ==
    <<Payee("p1", Missing, FALSE), Payee("p2", "a2", ~live2)>>
    \o (IF has1 THEN <<Payee("p3", "a1", FALSE)>> ELSE <<>>)

TxTransferDocs ==
    {Document(KindAccounts(kind), StdMasters, TransferPayees(live2, has1),
              LET t1 == Transaction("t1", "a1", tomb1, tr1,
                                    IF tr1 = Missing THEN Missing ELSE "a2",
                                    "p1", "c1", <<>>)
                  t2 == Transaction("t2", "a2", tomb2, tr2,
                                    IF tr2 = Missing THEN Missing ELSE "a1",
                                    "p1", "c1", <<>>)
              IN  IF swap THEN <<t2, t1>> ELSE <<t1, t2>>,
              StdMonths) :
        kind \in AccountKinds, live2 \in BOOLEAN, has1 \in BOOLEAN,
        tomb1 \in BOOLEAN, tr1 \in {Missing, "t2", "t0"},
        tomb2 \in BOOLEAN, tr2 \in {Missing, "t1"}, swap \in BOOLEAN}

\* Accounts: a1 and a2 live or tombstoned, each with onBudget and hidden
\* true, false or not in the record; a3 live and on budget.
FlagValues == {"true", "false", "absent"}

OptionalFlag(key, v) == IF v = "absent" THEN <<>> ELSE key :> (v = "true")

VariedAccount(id, onBudget, hidden, tomb) ==
    [entityId |-> id, accountType |-> "Checking", accountName |-> id,
     isTombstone |-> tomb]
    @@ OptionalFlag("onBudget", onBudget) @@ OptionalFlag("hidden", hidden)

AccountDocs ==
    {Document(<<VariedAccount("a1", on1, hid1, tomb1),
                VariedAccount("a2", on2, hid2, tomb2),
                Account("a3", TRUE, FALSE)>>,
              StdMasters, StdPayees, <<>>, StdMonths) :
        on1 \in FlagValues, hid1 \in FlagValues, tomb1 \in BOOLEAN,
        on2 \in FlagValues, hid2 \in FlagValues, tomb2 \in BOOLEAN}

Docs ==
    CategoryDocs \cup BudgetDocs \cup TxCategoryDocs \cup TxTransferDocs
    \cup AccountDocs

\* The stages of doImport, in the order of lines 336-348.
StageOrder == <<"accounts", "categories", "payees", "transactions", "budgets">>

(***************************************************************************)
(* The Ledger's calls, as the history variable `issued` records them.      *)
(***************************************************************************)
Call(op, src, month, target, val) ==
    [op |-> op, src |-> src, month |-> month, target |-> target, val |-> val]

\* The index of the first live item of seq at or after pos; Len(seq) + 1 when
\* there is none (a loop that skips tombstoned items).
FirstLive(seq, pos) ==
    LET live == {i \in pos..Len(seq) : ~seq[i].isTombstone}
    IN  IF live = {} THEN Len(seq) + 1
        ELSE CHOOSE i \in live : \A j \in live : i <= j

(***************************************************************************)
(* The state after construction: a new budget file, as runImport opens     *)
(* it, which holds the Ledger's own Income category or (a Ledger without   *)
(* one) nothing; an empty registry.                                        *)
(***************************************************************************)
IncomeGroup == [id |-> 1, name |-> "Income", is_income |-> TRUE]

IncomeCategory == [id |-> 2, name |-> "Income", group_id |-> 1]

InitDevice ==
    /\ files = <<>>
    /\ selected = "idle"

InitLedger(docs, incomes) ==
    /\ data \in docs
    /\ \E income \in incomes :
          /\ lGroups = IF income THEN <<IncomeGroup>> ELSE <<>>
          /\ lCategories = IF income THEN <<IncomeCategory>> ELSE <<>>
          /\ nextId = IF income THEN 3 ELSE 1
    /\ entityIdMap = <<>>
    /\ stage = "start"
    /\ error = "none"
    /\ stageLog = <<>>
    /\ acctPending = {}
    /\ groupTasks = <<>>
    /\ catInflight = <<>>
    /\ payeePos = 0
    /\ fetched = [categories |-> <<>>, accounts |-> <<>>, payees |-> <<>>,
                  incomeCategoryId |-> Undefined]
    /\ txPending = {}
    /\ budgets = <<>>
    /\ monthIdx = 0
    /\ budgetTasks = {}
    /\ carryoverFlags = <<>>
    /\ lAccounts = <<>>
    /\ lPayees = <<>>
    /\ lBatches = {}
    /\ lBudget = {}
    /\ lCarryover = {}
    /\ issued = {}
    /\ processed = {}

\* Whether the Ledger holds an Income category matters to importTransactions
\* alone; the Ledger without one is explored with the documents that vary
\* the transactions' categories.
Init ==
    /\ InitLedger(Docs, {TRUE}) \/ InitLedger(TxCategoryDocs, {FALSE})
    /\ InitDevice

(***************************************************************************)
(* importAccounts                                                          *)
(***************************************************************************)

\* doImport creating only the accounts whose name the Ledger does not hold
\* yet, as if the account name were a deduplication key.
DoImportStartDedup ==
    /\ stage = "start"
    /\ stage' = "accounts"
    /\ stageLog' = Append(stageLog, "accounts")
    /\ acctPending' =
          {i \in 1..Len(data.accounts) :
              /\ ~data.accounts[i].isTombstone
              /\ \A k \in 1..Len(lAccounts) :
                    lAccounts[k].name # data.accounts[i].accountName}
    /\ issued' = issued \cup
          {Call("create-account", data.accounts[i].entityId, 0, 0, 0) :
              i \in acctPending'}
    /\ UNCHANGED <<data, entityIdMap, nextId, error, groupTasks, catInflight,
                   payeePos, fetched, txPending, budgets, monthIdx, budgetTasks,
                   carryoverFlags, lAccounts, lGroups, lCategories, lPayees,
                   lBatches, lBudget, lCarryover, processed, devVars>>

\* doImport up to its first await: importAccounts maps every account to an
\* async task; each task runs synchronously up to its createAccount call.
DoImportStart ==
    /\ stage = "start"
    /\ stage' = "accounts"
    /\ stageLog' = Append(stageLog, "accounts")
    /\ acctPending' = {i \in 1..Len(data.accounts) : ~data.accounts[i].isTombstone}
    /\ issued' = issued \cup
          {Call("create-account", data.accounts[i].entityId, 0, 0, 0) :
              i \in acctPending'}
    /\ UNCHANGED <<data, entityIdMap, nextId, error, groupTasks, catInflight,
                   payeePos, fetched, txPending, budgets, monthIdx, budgetTasks,
                   carryoverFlags, lAccounts, lGroups, lCategories, lPayees,
                   lBatches, lBudget, lCarryover, processed, devVars>>

\* A boolean field of a record as a condition: false when the record does
\* not carry the field.
Flag(rec, key) == key \in DOMAIN rec /\ rec[key]

\* createAccount's argument with onBudget copied into offbudget.
NewAccountNotInverted(account, id) ==
    [id |-> id,
     type |-> mapAccountType(account.accountType),
     name |-> account.accountName,
     offbudget |-> IF Flag(account, "onBudget") THEN TRUE ELSE FALSE,
     closed |-> IF Flag(account, "hidden") THEN TRUE ELSE FALSE]

\* The account the Ledger creates for createAccount's argument.
NewAccount(account, id) ==
    [id |-> id,
     type |-> mapAccountType(account.accountType),
     name |-> account.accountName,
     offbudget |-> IF Flag(account, "onBudget") THEN FALSE ELSE TRUE,
     closed |-> IF Flag(account, "hidden") THEN TRUE ELSE FALSE]

\* createAccount returns for the i-th account; the task registers the id.
CreateAccountReturns(i) ==
    /\ i \in acctPending
    /\ acctPending' = acctPending \ {i}
    /\ lAccounts' = Append(lAccounts, NewAccount(data.accounts[i], nextId))
    /\ entityIdMap' = Set(entityIdMap, data.accounts[i].entityId, nextId)
    /\ nextId' = nextId + 1
    /\ UNCHANGED <<data, stage, error, stageLog, groupTasks, catInflight,
                   payeePos, fetched, txPending, budgets, monthIdx, budgetTasks,
                   carryoverFlags, lGroups, lCategories, lPayees, lBatches,
                   lBudget, lCarryover, issued, processed, devVars>>

\* importAccounts returning without awaiting its tasks.
AccountsNotJoined == TRUE

\* `await importAccounts(...)`: Promise.all resolves when every task has.
AccountsJoined == acctPending = {}

(***************************************************************************)
(* importCategories                                                        *)
(***************************************************************************)
SortedMasters == SortByKey(data.masterCategories, "sortableIndex")

\* The test of lines 83-88 without its test of the type.
QualifiesAnyType(masterCategory) ==
    /\ ~masterCategory.isTombstone
    /\ \E i \in 1..Len(masterCategory.subCategories) :
          ~masterCategory.subCategories[i].isTombstone

\* The test of lines 83-88.
Qualifies(masterCategory) ==
    /\ masterCategory.type = "OUTFLOW"
    /\ ~masterCategory.isTombstone
    /\ \E i \in 1..Len(masterCategory.subCategories) :
          ~masterCategory.subCategories[i].isTombstone

\* The subcategories in the order of the creation loop.
CreationOrder(masterCategory) ==
    Reverse(SortByKey(masterCategory.subCategories, "sortableIndex"))

\* The creation loop as a Promise.all over the live subcategories: every
\* remaining call is issued at once.
NextToIssueAll(subCategories, pos) ==
    {i \in pos..Len(subCategories) : ~subCategories[i].isTombstone}

\* The positions of CreationOrder whose createCategory call the loop issues
\* next, having dealt with every position before pos: the loop awaits each
\* call, so it is the first live one.
NextToIssue(subCategories, pos) ==
    LET first == FirstLive(subCategories, pos)
    IN  IF first > Len(subCategories) THEN {} ELSE {first}

Max(S) == CHOOSE x \in S : \A y \in S : y <= x

\* importCategories up to its first await: one task per master category, each
\* running synchronously up to its createCategoryGroup call.
ImportCategoriesStart ==
    /\ stage = "accounts"
    /\ AccountsJoined
    /\ stage' = "categories"
    /\ stageLog' = Append(stageLog, "categories")
    /\ groupTasks' = [m \in 1..Len(SortedMasters) |->
                         IF Qualifies(SortedMasters[m]) THEN "group" ELSE "done"]
    /\ catInflight' = [m \in 1..Len(SortedMasters) |-> {}]
    /\ issued' = issued \cup
          {Call("create-category-group", SortedMasters[m].entityId, 0, 0, 0) :
              m \in {k \in 1..Len(SortedMasters) : Qualifies(SortedMasters[k])}}
    /\ UNCHANGED <<data, entityIdMap, nextId, error, acctPending, payeePos,
                   fetched, txPending, budgets, monthIdx, budgetTasks,
                   carryoverFlags, lAccounts, lGroups, lCategories, lPayees,
                   lBatches, lBudget, lCarryover, processed, devVars>>

\* What a task does after a call of it returned, with every position of the
\* creation order before pos dealt with: issue the next createCategory calls,
\* or finish.
ContinueGroup(m, pos, inflight) ==
    LET order == CreationOrder(SortedMasters[m])
        next == NextToIssue(order, pos)
    IN  /\ catInflight' = [catInflight EXCEPT ![m] = inflight \cup next]
        /\ groupTasks' = [groupTasks EXCEPT ![m] =
                             IF inflight \cup next = {} THEN "done" ELSE "cats"]
        /\ issued' = issued \cup
              {Call("create-category", order[q].entityId, 0, 0, 0) : q \in next}

\* createCategoryGroup returns for the m-th master category.
CreateCategoryGroupReturns(m) ==
    /\ m \in DOMAIN groupTasks
    /\ groupTasks[m] = "group"
    /\ lGroups' = Append(lGroups, [id |-> nextId, name |-> SortedMasters[m].name,
                                   is_income |-> FALSE])
    /\ entityIdMap' = Set(entityIdMap, SortedMasters[m].entityId, nextId)
    /\ nextId' = nextId + 1
    /\ ContinueGroup(m, 1, {})
    /\ UNCHANGED <<data, stage, error, stageLog, acctPending, payeePos, fetched,
                   txPending, budgets, monthIdx, budgetTasks, carryoverFlags,
                   lAccounts, lCategories, lPayees, lBatches, lBudget,
                   lCarryover, processed, devVars>>

\* createCategory returns for position q of the m-th master category's
\* creation order.  The Ledger puts a new category at the top of its group.
\* group_id was read from the registry when the call was issued; the master
\* category's entry does not change after that.
CreateCategoryReturns(m, q) ==
    /\ m \in DOMAIN catInflight
    /\ q \in catInflight[m]
    /\ LET category == CreationOrder(SortedMasters[m])[q]
       IN  /\ lCategories' =
                 <<[id |-> nextId, name |-> category.name,
                    group_id |-> Get(entityIdMap, category.masterCategoryId)]>>
                 \o lCategories
           /\ entityIdMap' = Set(entityIdMap, category.entityId, nextId)
    /\ nextId' = nextId + 1
    /\ IF catInflight[m] = {q}
          THEN ContinueGroup(m, q + 1, {})
          ELSE /\ catInflight' = [catInflight EXCEPT ![m] = @ \ {q}]
               /\ UNCHANGED <<groupTasks, issued>>
    /\ UNCHANGED <<data, stage, error, stageLog, acctPending, payeePos, fetched,
                   txPending, budgets, monthIdx, budgetTasks, carryoverFlags,
                   lAccounts, lGroups, lPayees, lBatches, lBudget, lCarryover,
                   processed, devVars>>

\* `await importCategories(...)`.
CategoriesJoined == \A m \in DOMAIN groupTasks : groupTasks[m] = "done"

(***************************************************************************)
(* importPayees                                                            *)
(***************************************************************************)

\* The createPayee call for the payee at pos, if there is one.
PayeeCalls(pos) ==
    IF pos > Len(data.payees) THEN {}
    ELSE {Call("create-payee", data.payees[pos].entityId, 0, 0, 0)}

\* importPayees up to its first await.
ImportPayeesStart ==
    /\ stage = "categories"
    /\ CategoriesJoined
    /\ stage' = "payees"
    /\ stageLog' = Append(stageLog, "payees")
    /\ payeePos' = FirstLive(data.payees, 1)
    /\ issued' = issued \cup PayeeCalls(payeePos')
    /\ UNCHANGED <<data, entityIdMap, nextId, error, acctPending, groupTasks,
                   catInflight, fetched, txPending, budgets, monthIdx,
                   budgetTasks, carryoverFlags, lAccounts, lGroups, lCategories,
                   lPayees, lBatches, lBudget, lCarryover, processed, devVars>>

\* createPayee returns; the loop registers the id and goes on to the next
\* live payee.  The arguments were read from the registry when the call was
\* issued; no other task runs during this stage.
CreatePayeeReturns ==
    /\ stage = "payees"
    /\ payeePos <= Len(data.payees)
    /\ LET payee == data.payees[payeePos]
       IN  /\ lPayees' = Append(lPayees,
                 [id |-> nextId, name |-> payee.name,
                  category |-> OrNull(Get(entityIdMap, payee.autoFillCategoryId)),
                  transfer_acct |-> OrNull(Get(entityIdMap, payee.targetAccountId))])
           /\ entityIdMap' = Set(entityIdMap, payee.entityId, nextId)
    /\ nextId' = nextId + 1
    /\ payeePos' = FirstLive(data.payees, payeePos + 1)
    /\ issued' = issued \cup PayeeCalls(payeePos')
    /\ UNCHANGED <<data, stage, error, stageLog, acctPending, groupTasks,
                   catInflight, fetched, txPending, budgets, monthIdx,
                   budgetTasks, carryoverFlags, lAccounts, lGroups, lCategories,
                   lBatches, lBudget, lCarryover, processed, devVars>>

\* `await importPayees(...)`.
PayeesJoined == payeePos > Len(data.payees)

(***************************************************************************)
(* importTransactions                                                      *)
(***************************************************************************)

\* Array.prototype.find over the Ledger's lists: the index of the first
\* match, 0 when find returns undefined.
First(hits) == IF hits = {} THEN 0 ELSE CHOOSE i \in hits : \A j \in hits : i <= j

FindCategoryByName(categories, name) ==
    First({i \in 1..Len(categories) : categories[i].name = name})

FindAccount(accounts, id) ==
    First({i \in 1..Len(accounts) : accounts[i].id = id})

FindTransferPayee(payees, acct) ==
    First({i \in 1..Len(payees) : payees[i].transfer_acct = acct})

\* Lines 136-139: the three lists are fetched one after the other; no other
\* task runs meanwhile.  `categories.find(...).id` throws a TypeError when
\* the Ledger has no category named Income.
ImportTransactionsFetch ==
    /\ stage = "payees"
    /\ PayeesJoined
    /\ stageLog' = Append(stageLog, "transactions")
    /\ LET income == FindCategoryByName(lCategories, "Income")
       IN  IF income = 0
              THEN /\ stage' = "failed"
                   /\ error' = "MissingIncome"
                   /\ UNCHANGED fetched
              ELSE /\ stage' = "fetched"
                   /\ fetched' = [categories |-> lCategories,
                                  accounts |-> lAccounts,
                                  payees |-> lPayees,
                                  incomeCategoryId |-> lCategories[income].id]
                   /\ UNCHANGED error
    /\ UNCHANGED <<data, entityIdMap, nextId, acctPending, groupTasks,
                   catInflight, payeePos, txPending, budgets, monthIdx,
                   budgetTasks, carryoverFlags, lAccounts, lGroups, lCategories,
                   lPayees, lBatches, lBudget, lCarryover, issued, processed,
                   devVars>>

\* getCategory without its case for the income placeholders.
getCategoryNoIncome(map, id) ==
    IF id = Missing \/ id = SplitCategory THEN Null
    ELSE Get(map, id)

\* getCategory
getCategory(map, id) ==
    IF id = Missing \/ id = SplitCategory THEN Null
    ELSE IF id = ImmediateIncome \/ id = DeferredIncome
            THEN fetched.incomeCategoryId
    ELSE Get(map, id)

\* isOffBudget without its use of the account's offbudget flag.
isOffBudgetIgnored(acctId) ==
    IF FindAccount(fetched.accounts, acctId) = 0 THEN "throw" ELSE "no"

\* isOffBudget: "throw" when the Ledger has no such account.
isOffBudget(acctId) ==
    LET acct == FindAccount(fetched.accounts, acctId)
    IN  IF acct = 0 THEN "throw"
        ELSE IF fetched.accounts[acct].offbudget THEN "yes" ELSE "no"

\* Ids for the live transactions only.
AllocateLiveIds(map, transactions, base) ==
    [k \in DOMAIN map \cup {transactions[i].entityId :
                               i \in {j \in 1..Len(transactions) :
                                         ~transactions[j].isTombstone}} |->
        LET own == {i \in 1..Len(transactions) :
                       transactions[i].entityId = k /\ ~transactions[i].isTombstone}
        IN  IF own = {} THEN map[k] ELSE base + Max(own) - 1]

\* Lines 163-165: an id for every transaction of the document, the j-th
\* getting the j-th fresh id; a later transaction of the same entityId
\* overwrites an earlier one.
AllocateIds(map, transactions, base) ==
    [k \in DOMAIN map \cup {transactions[i].entityId : i \in 1..Len(transactions)} |->
        LET own == {i \in 1..Len(transactions) : transactions[i].entityId = k}
        IN  IF own = {} THEN map[k] ELSE base + Max(own) - 1]

\* groupBy(data.transactions, 'accountId'), as Object.keys lists it: the
\* account ids in the order of their first transaction.
AccountKeys(transactions) ==
    LET firsts == {i \in 1..Len(transactions) :
                      \A j \in 1..(i - 1) :
                          transactions[j].accountId # transactions[i].accountId}
        F[i \in 0..Len(transactions)] ==
            IF i = 0 THEN <<>>
            ELSE IF i \in firsts THEN Append(F[i - 1], transactions[i].accountId)
            ELSE F[i - 1]
    IN  F[Len(transactions)]

\* The payee_id copied from the registry for transfer legs too.
ResolvePayeeDirect(map, transaction, transferId) ==
    [throw |-> FALSE, id |-> Get(map, transaction.payeeId)]

\* Lines 180-193 for one transaction: the payee_id, or "throw" when
\* `payees.find(...)` returns undefined and `.id` raises a TypeError.
ResolvePayee(map, transaction, transferId) ==
    IF Truthy(transferId)
       THEN LET p == FindTransferPayee(fetched.payees,
                                       Get(map, transaction.targetAccountId))
            IN  IF p = 0 THEN [throw |-> TRUE, id |-> Null]
                ELSE [throw |-> FALSE, id |-> fetched.payees[p].id]
       ELSE [throw |-> FALSE, id |-> Get(map, transaction.payeeId)]

\* Lines 210-215: the callback of subTransactions.map.
MapSubTransactions(map, subTransactions) ==
    [i \in 1..Len(subTransactions) |->
        [amount |-> amountToInteger(subTransactions[i].amount),
         category_id |-> getCategory(map, subTransactions[i].categoryId)]]

\* Lines 175-218 for one live transaction: the new transaction, or the error
\* the callback throws.
MapTransaction(map, accountId, transaction) ==
    LET id == Get(map, transaction.entityId)
        transferId == OrNull(Get(map, transaction.transferTransactionId))
        payee == ResolvePayee(map, transaction, transferId)
        off == isOffBudget(Get(map, accountId))
    IN  IF payee.throw THEN [error |-> "UnresolvedTransferPayee"]
        ELSE IF off = "throw" THEN [error |-> "MissingAccount"]
        ELSE [error |-> "none",
              tx |-> [id |-> id,
                      amount |-> amountToInteger(transaction.amount),
                      category_id |-> IF off = "yes" THEN Null
                                      ELSE getCategory(map, transaction.categoryId),
                      date |-> transaction.date,
                      payee |-> Null,
                      payee_id |-> payee.id,
                      transfer_id |-> transferId,
                      subtransactions |->
                          IF "subTransactions" \in DOMAIN transaction
                             THEN MapSubTransactions(map,
                                                     transaction.subTransactions)
                             ELSE Undefined]]

\* Lines 172-219 for one account id: its live transactions mapped in order.
\* The task throws with the error of the first transaction that throws.
MapAccount(map, accountId) ==
    LET live == SelectSeq(data.transactions,
                    LAMBDA t : t.accountId = accountId /\ ~t.isTombstone)
        mapped == [i \in 1..Len(live) |-> MapTransaction(map, accountId, live[i])]
        bad == {i \in 1..Len(live) : mapped[i].error # "none"}
    IN  IF bad # {}
           THEN [error |-> mapped[First(bad)].error, toImport |-> <<>>]
           ELSE [error |-> "none",
                 toImport |-> [i \in 1..Len(live) |-> mapped[i].tx]]

\* Lines 163-223 up to the await: ids for all transactions, then one task
\* per account id, which runs synchronously up to its addTransactions call
\* or throws before it.  Promise.all rejects with the first task that
\* threw; the calls the other tasks issued stay in flight.
ImportTransactionsMap ==
    /\ stage = "fetched"
    /\ LET map == AllocateIds(entityIdMap, data.transactions, nextId)
           keys == AccountKeys(data.transactions)
           tasks == [k \in 1..Len(keys) |-> MapAccount(map, keys[k])]
           bad == {k \in 1..Len(keys) : tasks[k].error # "none"}
           good == (1..Len(keys)) \ bad
       IN  /\ entityIdMap' = map
           /\ nextId' = nextId + Len(data.transactions)
           /\ txPending' = {[accountId |-> keys[k],
                             acct |-> Get(map, keys[k]),
                             transactions |-> tasks[k].toImport] : k \in good}
           /\ issued' = issued \cup
                 {Call("insert-transactions-batch", keys[k], 0,
                       Get(map, keys[k]), Len(tasks[k].toImport)) : k \in good}
           /\ IF bad = {}
                 THEN /\ stage' = "transactions"
                      /\ UNCHANGED error
                 ELSE /\ stage' = "failed"
                      /\ error' = tasks[First(bad)].error
    /\ UNCHANGED <<data, stageLog, acctPending, groupTasks, catInflight,
                   payeePos, fetched, budgets, monthIdx, budgetTasks,
                   carryoverFlags, lAccounts, lGroups, lCategories, lPayees,
                   lBatches, lBudget, lCarryover, processed, devVars>>

\* addTransactions returns for one account's batch.
AddTransactionsReturns(batch) ==
    /\ batch \in txPending
    /\ txPending' = txPending \ {batch}
    /\ lBatches' = lBatches \cup {batch}
    /\ UNCHANGED <<data, entityIdMap, nextId, stage, error, stageLog,
                   acctPending, groupTasks, catInflight, payeePos, fetched,
                   budgets, monthIdx, budgetTasks, carryoverFlags, lAccounts,
                   lGroups, lCategories, lPayees, lBudget, lCarryover, issued,
                   processed, devVars>>

\* `await importTransactions(...)`.
TransactionsJoined == txPending = {}

(***************************************************************************)
(* importBudgets                                                           *)
(***************************************************************************)

\* Every subcategory of the master category tree, in forEach order.
AllSubCategories(masters) ==
    LET F[i \in 0..Len(masters)] ==
            IF i = 0 THEN <<>> ELSE F[i - 1] \o masters[i].subCategories
    IN  F[Len(masters)]

\* fillInBudgets: the month's entries, followed by a zero entry for every
\* subcategory that no entry (of the month, or pushed before it) names.
fillInBudgets(categoryBudgets) ==
    LET subs == AllSubCategories(data.masterCategories)
        named == {categoryBudgets[i].categoryId : i \in 1..Len(categoryBudgets)}
        F[i \in 0..Len(subs)] ==
            IF i = 0 THEN categoryBudgets
            ELSE IF \/ subs[i].entityId \in named
                    \/ \E j \in 1..(i - 1) : subs[j].entityId = subs[i].entityId
                    THEN F[i - 1]
            ELSE Append(F[i - 1], BudgetEntry(subs[i].entityId, 0, FALSE, Missing))
    IN  F[Len(subs)]

\* importBudgets started although importTransactions has rejected, as if
\* doImport caught the error of a stage and went on.
ImportBudgetsStartAfterFailure ==
    /\ stage \in {"transactions", "failed"}
    /\ Len(stageLog) = 4
    /\ TransactionsJoined
    /\ stageLog' = Append(stageLog, "budgets")
    /\ budgets' = SortByKey(data.monthlyBudgets, "month")
    /\ IF Len(data.monthlyBudgets) = 0
          THEN stage' = "failed" /\ error' = "NoMonthlyBudgets"
          ELSE stage' = "budgets" /\ UNCHANGED error
    /\ monthIdx' = 0
    /\ carryoverFlags' = <<>>
    /\ UNCHANGED <<data, entityIdMap, nextId, acctPending, groupTasks,
                   catInflight, payeePos, fetched, txPending, budgetTasks,
                   lAccounts, lGroups, lCategories, lPayees, lBatches, lBudget,
                   lCarryover, issued, processed, devVars>>

\* Lines 250-254: the months sorted; `budgets[0].month` throws a TypeError
\* when the document has no monthly budget.  batchBudgetUpdates then runs
\* the callback.
ImportBudgetsStart ==
    /\ stage = "transactions"
    /\ TransactionsJoined
    /\ stageLog' = Append(stageLog, "budgets")
    /\ budgets' = SortByKey(data.monthlyBudgets, "month")
    /\ IF Len(data.monthlyBudgets) = 0
          THEN stage' = "failed" /\ error' = "NoMonthlyBudgets"
          ELSE stage' = "budgets" /\ UNCHANGED error
    /\ monthIdx' = 0
    /\ carryoverFlags' = <<>>
    /\ UNCHANGED <<data, entityIdMap, nextId, acctPending, groupTasks,
                   catInflight, payeePos, fetched, txPending, budgetTasks,
                   lAccounts, lGroups, lCategories, lPayees, lBatches, lBudget,
                   lCarryover, issued, processed, devVars>>

\* Lines 260-269 for one entry of a month: the task's state at its
\* setBudgetAmount call; tombstoned and unmapped entries issue no call.
EntryTasks(budget) ==
    LET entries == fillInBudgets(budget.monthlySubCategoryBudgets)
    IN  {[month |-> monthFromDate(budget.month),
          categoryId |-> entries[i].categoryId,
          catId |-> Get(entityIdMap, entries[i].categoryId),
          amount |-> amountToInteger(entries[i].budgeted),
          handling |-> entries[i].overspendingHandling,
          st |-> "amount"] :
            i \in {j \in 1..Len(entries) :
                      /\ ~entries[j].isTombstone
                      /\ Truthy(Get(entityIdMap, entries[j].categoryId))}}

\* The loop going on to the next month without awaiting the month's tasks.
MonthNotJoined == TRUE

\* `await Promise.all(...)` of line 258.
MonthJoined == budgetTasks = {}

\* One iteration of the loop of line 257 up to its await: the month's tasks
\* run synchronously up to their setBudgetAmount calls.
StartMonth ==
    /\ stage = "budgets"
    /\ MonthJoined
    /\ monthIdx < Len(budgets)
    /\ monthIdx' = monthIdx + 1
    /\ budgetTasks' = budgetTasks \cup EntryTasks(budgets[monthIdx'])
    /\ issued' = issued \cup
          {Call("set-budget-amount", t.categoryId, t.month, t.catId, t.amount) :
              t \in EntryTasks(budgets[monthIdx'])}
    /\ UNCHANGED <<data, entityIdMap, nextId, stage, error, stageLog,
                   acctPending, groupTasks, catInflight, payeePos, fetched,
                   txPending, budgets, carryoverFlags, lAccounts, lGroups,
                   lCategories, lPayees, lBatches, lBudget, lCarryover,
                   processed, devVars>>

\* `carryoverFlags[catId]` as a condition.
FlagOn(flags, catId) == catId \in DOMAIN flags /\ flags[catId]

\* CarryoverStep with one flag shared by all the categories.
CarryoverStepShared(flags, catId, handling) ==
    IF handling = "AffectsBuffer"
       THEN [flags |-> [k \in DOMAIN flags \cup {catId} |-> FALSE],
             push |-> FALSE]
    ELSE IF handling = "Confined" \/ (\E k \in DOMAIN flags : flags[k])
       THEN [flags |-> [k \in DOMAIN flags \cup {catId} |-> TRUE],
             push |-> TRUE]
    ELSE [flags |-> flags, push |-> FALSE]

\* CarryoverStep without the reset of the flag on AffectsBuffer.
CarryoverStepNoReset(flags, catId, handling) ==
    IF handling = "AffectsBuffer"
       THEN [flags |-> flags, push |-> FALSE]
    ELSE IF handling = "Confined" \/ FlagOn(flags, catId)
       THEN [flags |-> Set(flags, catId, TRUE), push |-> TRUE]
    ELSE [flags |-> flags, push |-> FALSE]

\* Lines 271-284: the new flags, and whether setBudgetCarryover is called.
CarryoverStep(flags, catId, handling) ==
    IF handling = "AffectsBuffer"
       THEN [flags |-> Set(flags, catId, FALSE), push |-> FALSE]
    ELSE IF handling = "Confined" \/ FlagOn(flags, catId)
       THEN [flags |-> Set(flags, catId, TRUE), push |-> TRUE]
    ELSE [flags |-> flags, push |-> FALSE]

\* setBudgetAmount returns for one entry; its task updates the flag and
\* calls setBudgetCarryover or finishes.
SetBudgetAmountReturns(t) ==
    /\ t \in budgetTasks
    /\ t.st = "amount"
    /\ lBudget' = lBudget \cup
          {[month |-> t.month, category |-> t.catId, amount |-> t.amount]}
    /\ processed' = processed \cup
          {[month |-> t.month, category |-> t.catId, handling |-> t.handling]}
    /\ LET step == CarryoverStep(carryoverFlags, t.catId, t.handling)
       IN  /\ carryoverFlags' = step.flags
           /\ IF step.push
                 THEN /\ budgetTasks' = (budgetTasks \ {t}) \cup
                                            {[t EXCEPT !.st = "carryover"]}
                      /\ issued' = issued \cup
                            {Call("set-budget-carryover", t.categoryId, t.month,
                                  t.catId, 1)}
                 ELSE /\ budgetTasks' = budgetTasks \ {t}
                      /\ UNCHANGED issued
    /\ UNCHANGED <<data, entityIdMap, nextId, stage, error, stageLog,
                   acctPending, groupTasks, catInflight, payeePos, fetched,
                   txPending, budgets, monthIdx, lAccounts, lGroups,
                   lCategories, lPayees, lBatches, lCarryover, devVars>>

\* setBudgetCarryover(month, catId, true) returns; the task finishes.
SetBudgetCarryoverReturns(t) ==
    /\ t \in budgetTasks
    /\ t.st = "carryover"
    /\ budgetTasks' = budgetTasks \ {t}
    /\ lCarryover' = lCarryover \cup
          {[month |-> t.month, category |-> t.catId, value |-> TRUE]}
    /\ UNCHANGED <<data, entityIdMap, nextId, stage, error, stageLog,
                   acctPending, groupTasks, catInflight, payeePos, fetched,
                   txPending, budgets, monthIdx, carryoverFlags, lAccounts,
                   lGroups, lCategories, lPayees, lBatches, lBudget, issued,
                   processed, devVars>>

\* The loop is over, batchBudgetUpdates and importBudgets return, and
\* doImport resolves.
DoImportDone ==
    /\ stage = "budgets"
    /\ MonthJoined
    /\ monthIdx = Len(budgets)
    /\ stage' = "done"
    /\ UNCHANGED <<data, entityIdMap, nextId, error, stageLog, acctPending,
                   groupTasks, catInflight, payeePos, fetched, txPending,
                   budgets, monthIdx, budgetTasks, carryoverFlags, lAccounts,
                   lGroups, lCategories, lPayees, lBatches, lBudget, lCarryover,
                   issued, processed, devVars>>

(***************************************************************************)
(* doImport                                                                *)
(***************************************************************************)
Next ==
    \/ DoImportStart
    \/ \E i \in acctPending : CreateAccountReturns(i)
    \/ ImportCategoriesStart
    \/ \E m \in DOMAIN groupTasks : CreateCategoryGroupReturns(m)
    \/ \E m \in DOMAIN catInflight : \E q \in catInflight[m] :
          CreateCategoryReturns(m, q)
    \/ ImportPayeesStart
    \/ CreatePayeeReturns
    \/ ImportTransactionsFetch
    \/ ImportTransactionsMap
    \/ \E batch \in txPending : AddTransactionsReturns(batch)
    \/ ImportBudgetsStart
    \/ StartMonth
    \/ \E t \in budgetTasks : SetBudgetAmountReturns(t)
    \/ \E t \in budgetTasks : SetBudgetCarryoverReturns(t)
    \/ DoImportDone

Spec == Init /\ [][Next]_vars

(***************************************************************************)
(* findLatestDevice                                                        *)
(*                                                                         *)
(* A device metadata file either fails JSON.parse or holds a record with   *)
(* hasFullKnowledge, deviceGUID and knowledge.  A knowledge string         *)
(* "A-3,B-5" is the sequence of its comma-separated tokens, each token     *)
(* the pair of the parts around its dash.                                  *)
(***************************************************************************)
DeviceIds == <<"d1", "d2", "d3", "d4">>

Knowledges ==
    UNION {[1..n -> {<<"A", v>> : v \in 1..MaxVersion}] : n \in {1, 2}}

\* What a device file holds: nothing that parses, a record without full
\* knowledge, or a record with full knowledge and a knowledge string.
FileShapes ==
    {[parses |-> FALSE, hasFullKnowledge |-> FALSE, knowledge |-> <<>>],
     [parses |-> TRUE, hasFullKnowledge |-> FALSE, knowledge |-> <<>>]}
    \cup {[parses |-> TRUE, hasFullKnowledge |-> TRUE, knowledge |-> k] :
              k \in Knowledges}

\* The i-th device file, of a shape.
DeviceFile(i, shape) ==
    [parses |-> shape.parses, hasFullKnowledge |-> shape.hasFullKnowledge,
     deviceGUID |-> DeviceIds[i], knowledge |-> shape.knowledge]

\* estimateRecentness: the reduce over the tokens, from the left.
estimateRecentness(str) ==
    LET F[i \in 0..Len(str)] ==
            IF i = 0 THEN 0 ELSE F[i - 1] + str[i][2]
    IN  F[Len(str)]

\* Lines 305-326: the devices that parse and have full knowledge, in input
\* order.
Devices(deviceFiles) ==
    LET kept == SelectSeq(deviceFiles,
                          LAMBDA f : f.parses /\ f.hasFullKnowledge)
    IN  [i \in 1..Len(kept) |->
            [deviceGUID |-> kept[i].deviceGUID,
             recentness |-> estimateRecentness(kept[i].knowledge)]]

\* findLatestDevice taking the head of the sorted list instead of its tail.
findLatestDeviceHead(deviceFiles) ==
    LET devices == SortByKey(Devices(deviceFiles), "recentness")
    IN  IF Len(devices) = 0 THEN "throw" ELSE devices[1].deviceGUID

\* findLatestDevice falling back on the first file when no device is left.
findLatestDeviceFallback(deviceFiles) ==
    LET devices == SortByKey(Devices(deviceFiles), "recentness")
    IN  IF Len(devices) = 0 THEN deviceFiles[1].deviceGUID
        ELSE devices[Len(devices)].deviceGUID

\* findLatestDevice: the last device of the sorted list; "throw" for the
\* TypeError of `devices[-1].deviceGUID` when no device is left.
findLatestDevice(deviceFiles) ==
    LET devices == SortByKey(Devices(deviceFiles), "recentness")
    IN  IF Len(devices) = 0 THEN "throw"
        ELSE devices[Len(devices)].deviceGUID

\* A document for the runs that only select a device.
IdleDocument == Document(StdAccounts, StdMasters, StdPayees, <<>>, StdMonths)

InitSelect ==
    /\ \E n \in 1..MaxFiles : \E shapes \in [1..n -> FileShapes] :
          files = [i \in 1..n |-> DeviceFile(i, shapes[i])]
    /\ selected = "idle"
    /\ InitLedger({IdleDocument}, {TRUE})

FindLatestDevice ==
    /\ selected = "idle"
    /\ files # <<>>
    /\ selected' = findLatestDevice(files)
    /\ UNCHANGED <<files, pipeVars>>

NextSelect == FindLatestDevice

SpecSelect == InitSelect /\ [][NextSelect]_vars

(***************************************************************************)
(* importYNAB4: findLatestDevice over the files of the devices folder,     *)
(* then, unless it threw, the selected device's Budget.yfull is read and   *)
(* parsed and runImport runs doImport over it.                             *)
(***************************************************************************)

\* The Budget.yfull of the runs of importYNAB4: one entity of each kind, so
\* that every stage has one call to await.
YfullDocument ==
    Document(<<Account("a1", TRUE, FALSE)>>,
             <<MasterCategory("m1", "OUTFLOW", 1, FALSE,
                              <<SubCategory("c1", "m1", 1, FALSE)>>)>>,
             StdPayees,
             <<Transaction("t1", "a1", FALSE, Missing, Missing, "p1", "c1", <<>>)>>,
             <<MonthlyBudget(MonthDate(1), EntryOf("c1", "Confined"))>>)

InitYNAB4 ==
    /\ \E n \in 1..MaxFiles : \E shapes \in [1..n -> FileShapes] :
          files = [i \in 1..n |-> DeviceFile(i, shapes[i])]
    /\ selected = "idle"
    /\ InitLedger({YfullDocument}, {TRUE})

\* Lines 370-385: reached only when findLatestDevice returned a device.
RunImport ==
    /\ selected \notin {"idle", "throw"}
    /\ Next

NextYNAB4 ==
    \/ FindLatestDevice
    \/ RunImport

SpecYNAB4 == InitYNAB4 /\ [][NextYNAB4]_vars

(***************************************************************************)
(* doImport run twice over one document against one Ledger: when the first *)
(* run has resolved, doImport is called again; line 333 gives the run a    *)
(* new registry, and the Ledger is as the first run left it.  `issued`     *)
(* holds the calls of the current run, stageLog the stages of both.        *)
(***************************************************************************)

\* The documents of the repeated runs: account a2 on budget, off budget or
\* tombstoned, the transfer payee towards it live or tombstoned, one
\* transaction, one month with a Confined entry.
TwiceDocs ==
    {Document(KindAccounts(kind), StdMasters, TransferPayees(live2, TRUE),
              <<Transaction("t1", "a1", FALSE, Missing, Missing, "p1", "c1", <<>>)>>,
              <<MonthlyBudget(MonthDate(1), EntryOf("c1", "Confined"))>>) :
        kind \in AccountKinds, live2 \in BOOLEAN}

InitTwice ==
    /\ InitLedger(TwiceDocs, {TRUE})
    /\ InitDevice

\* The second call of doImport(data).
Restart ==
    /\ stage = "done"
    /\ Len(stageLog) = Len(StageOrder)
    /\ stage' = "start"
    /\ entityIdMap' = <<>>
    /\ issued' = {}
    /\ groupTasks' = <<>>
    /\ catInflight' = <<>>
    /\ payeePos' = 0
    /\ fetched' = [categories |-> <<>>, accounts |-> <<>>, payees |-> <<>>,
                   incomeCategoryId |-> Undefined]
    /\ budgets' = <<>>
    /\ monthIdx' = 0
    /\ carryoverFlags' = <<>>
    /\ UNCHANGED <<data, nextId, error, stageLog, acctPending, txPending,
                   budgetTasks, lAccounts, lGroups, lCategories, lPayees,
                   lBatches, lBudget, lCarryover, processed, devVars>>

NextTwice ==
    \/ Next
    \/ Restart

SpecTwice == InitTwice /\ [][NextTwice]_vars

(***************************************************************************)
(* Properties of device selection (checked under SpecSelect).              *)
(***************************************************************************)

\* The sum of the version numbers of a knowledge string.
VersionTotal(knowledge) ==
    LET G[i \in 1..(Len(knowledge) + 1)] ==
            IF i > Len(knowledge) THEN 0 ELSE knowledge[i][2] + G[i + 1]
    IN  G[1]

\* The positions of the records with full knowledge.
FullKnowledge == {i \in 1..Len(files) : files[i].parses /\ files[i].hasFullKnowledge}

\* The full-knowledge positions whose total is maximal.
MostRecent ==
    {i \in FullKnowledge :
        \A j \in FullKnowledge :
            VersionTotal(files[j].knowledge) <= VersionTotal(files[i].knowledge)}

\* C2, as stated: with at least one full-knowledge record, the selected device
\* is the one of maximal version total that comes first in input order.
C2_SelectsFirstOfMostRecent ==
    (selected # "idle" /\ FullKnowledge # {}) =>
        \E i \in MostRecent :
            /\ selected = files[i].deviceGUID
            /\ \A j \in MostRecent : i <= j

\* C2, amended: with at least one full-knowledge record, the selected device
\* is the one of maximal version total that comes last in input order.
C2_SelectsLastOfMostRecent ==
    (selected # "idle" /\ FullKnowledge # {}) =>
        \E i \in MostRecent :
            /\ selected = files[i].deviceGUID
            /\ \A j \in MostRecent : j <= i

\* C2's case: a selection among records of which two share the maximal
\* total, behind a record with a smaller one.
C2_TieSelected ==
    /\ selected \notin {"idle", "throw"}
    /\ Cardinality(MostRecent) = 2
    /\ Cardinality(FullKnowledge) = 3

(***************************************************************************)
(* Properties of importBudgets (checked under Spec).                       *)
(***************************************************************************)
BudgetCalls(op) == {c \in issued : c.op = op}

\* The carryover state machine of a category, replayed over the entries
\* processed for it in the months before `month`: off at first, on after a
\* Confined entry, off after an AffectsBuffer entry, unchanged otherwise.
RECURSIVE FlagFromEarlier(_, _)
FlagFromEarlier(category, month) ==
    LET earlier == {p \in processed : p.category = category /\ p.month < month}
    IN  IF earlier = {} THEN FALSE
        ELSE LET last == CHOOSE p \in earlier : \A q \in earlier : q.month <= p.month
             IN  \/ last.handling = "Confined"
                 \/ /\ last.handling # "AffectsBuffer"
                    /\ FlagFromEarlier(category, last.month)

\* Whether a processed entry calls for a carryover push.
PushExpected(p) ==
    \/ p.handling = "Confined"
    \/ p.handling # "AffectsBuffer" /\ FlagFromEarlier(p.category, p.month)

\* The month after every month of the document.
EndOfMonths == 1 + Max({0} \cup {monthFromDate(data.monthlyBudgets[i].month) :
                                    i \in 1..Len(data.monthlyBudgets)})

\* C1: the carryover calls issued are exactly those of the processed entries
\* whose marker is Confined, or is not AffectsBuffer with the flag on from an
\* earlier month; every one carries the value true; and a category's flag is
\* what the replay of its processed entries leaves (off after AffectsBuffer).
C1_CarryoverFollowsMarkers ==
    /\ {[month |-> c.month, category |-> c.target] :
           c \in BudgetCalls("set-budget-carryover")}
         = {[month |-> p.month, category |-> p.category] :
               p \in {q \in processed : PushExpected(q)}}
    /\ \A c \in BudgetCalls("set-budget-carryover") : c.val = 1
    /\ \A c \in lCarryover : c.value = TRUE
    /\ \A p \in processed :
          FlagOn(carryoverFlags, p.category)
              <=> FlagFromEarlier(p.category, EndOfMonths)

\* The processed entries of a category, as the set of <<month, marker>>.
ProcessedOf(category) ==
    {<<p.month, p.handling>> : p \in {q \in processed : q.category = category}}

\* C1's case: a finished run whose first three months hold, for category c1,
\* a Confined entry, an entry with no marker and an AffectsBuffer entry, with
\* carryover pushed for the first and the second month only.
C1_ConfinedPlainAffectsBuffer ==
    /\ stage = "done"
    /\ "c1" \in DOMAIN entityIdMap
    /\ ProcessedOf(entityIdMap["c1"]) =
          {<<monthFromDate(MonthDate(1)), "Confined">>,
           <<monthFromDate(MonthDate(2)), Missing>>,
           <<monthFromDate(MonthDate(3)), "AffectsBuffer">>}
    /\ {c.month : c \in {d \in BudgetCalls("set-budget-carryover") :
                            d.target = entityIdMap["c1"]}}
         = {monthFromDate(MonthDate(1)), monthFromDate(MonthDate(2))}

\* The live entries of a month for a category.
LiveEntries(budget, categoryId) ==
    {i \in 1..Len(budget.monthlySubCategoryBudgets) :
        /\ budget.monthlySubCategoryBudgets[i].categoryId = categoryId
        /\ ~budget.monthlySubCategoryBudgets[i].isTombstone}

\* The subcategories with a target id in the registry.
ActiveCategories ==
    {c \in Range(AllSubCategories(data.masterCategories)) :
        Truthy(Get(entityIdMap, c.entityId))}

\* C9: after importBudgets, set-budget-amount has been performed for every
\* month of the document and every active category, with the entry's amount,
\* or zero when the month has no live entry of the category.
C9_EveryActiveCategoryBudgeted ==
    stage = "done" =>
        \A b \in Range(data.monthlyBudgets) : \A c \in ActiveCategories :
            \E a \in lBudget :
                /\ a.month = monthFromDate(b.month)
                /\ a.category = entityIdMap[c.entityId]
                /\ IF LiveEntries(b, c.entityId) = {}
                      THEN a.amount = 0
                      ELSE \E i \in LiveEntries(b, c.entityId) :
                              a.amount = amountToInteger(
                                  b.monthlySubCategoryBudgets[i].budgeted)

\* The month being replayed.
CurrentMonth == monthFromDate(budgets[monthIdx].month)

\* C10: every budget call in flight belongs to the month being replayed, and
\* no call of a later month has been issued: a month's calls have all
\* returned before the first call of a later month is issued.
C10_MonthsStrictlySequential ==
    /\ \A t \in budgetTasks : t.month = CurrentMonth
    /\ monthIdx >= 1 =>
          \A c \in BudgetCalls("set-budget-amount")
                   \cup BudgetCalls("set-budget-carryover") :
              c.month <= CurrentMonth

\* C10's case: in a month after the first, the calls of two categories are
\* in flight together, one task ahead of the other.
C10_TwoCategoriesInFlight ==
    /\ monthIdx >= 2
    /\ \E t1 \in budgetTasks : \E t2 \in budgetTasks :
          /\ t1.catId # t2.catId
          /\ t1.st = "carryover"
          /\ t2.st = "amount"

(***************************************************************************)
(* Properties of doImport and of its first four stages (checked under     *)
(* Spec).                                                                  *)
(***************************************************************************)
Issued(op) == {c \in issued : c.op = op}

\* The test the specification gives for a master category to become a group.
LiveOutflow(masterCategory) ==
    /\ masterCategory.type = "OUTFLOW"
    /\ ~masterCategory.isTombstone
    /\ \E c \in Range(masterCategory.subCategories) : ~c.isTombstone

Mapped(id) == Truthy(Get(entityIdMap, id))

\* C3: the stages are entered in the order accounts, categories, payees,
\* transactions, budgets; once a stage is entered no task of an earlier stage
\* is in flight and every entity an earlier stage maps has its registry entry;
\* what the payee stage read from the registry is what the registry holds.
C3_StagesStrictlyOrdered ==
    /\ Len(stageLog) <= Len(StageOrder)
    /\ \A i \in 1..Len(stageLog) : stageLog[i] = StageOrder[i]
    /\ Len(stageLog) >= 2 =>
          /\ acctPending = {}
          /\ \A a \in Range(data.accounts) : ~a.isTombstone => Mapped(a.entityId)
    /\ Len(stageLog) >= 3 =>
          /\ \A m \in DOMAIN groupTasks :
                groupTasks[m] = "done" /\ catInflight[m] = {}
          /\ \A mc \in Range(data.masterCategories) :
                LiveOutflow(mc) =>
                    /\ Mapped(mc.entityId)
                    /\ \A c \in Range(mc.subCategories) :
                          ~c.isTombstone => Mapped(c.entityId)
    /\ Len(stageLog) >= 4 =>
          /\ payeePos > Len(data.payees)
          /\ \A py \in Range(data.payees) : ~py.isTombstone => Mapped(py.entityId)
    /\ Len(stageLog) >= 5 =>
          /\ txPending = {}
          /\ \A t \in Range(data.transactions) : Mapped(t.entityId)
    /\ \A py \in Range(data.payees) : \A p \in Range(lPayees) :
          p.id = Get(entityIdMap, py.entityId) =>
              p.transfer_acct = OrNull(Get(entityIdMap, py.targetAccountId))

\* C3's case: a finished run in which every stage had calls to await.
C3_EveryStageRan ==
    /\ stage = "done"
    /\ Len(lAccounts) = 2
    /\ Len(lCategories) >= 3
    /\ \E p \in Range(lPayees) : Truthy(p.transfer_acct)
    /\ Cardinality(lBatches) = 2
    /\ lBudget # {}

\* The batches handed to addTransactions so far.
Batches == txPending \cup lBatches

\* The source transactions a written transaction comes from.
SourcesOf(w) ==
    {t \in Range(data.transactions) : Get(entityIdMap, t.entityId) = w.id}

\* C4: once an insert-transactions-batch call has been issued, every source
\* transaction, tombstoned or not, has a target id in the registry, and every
\* written transaction whose transferTransactionId names a source transaction
\* carries that transaction's id as transfer_id.
C4_IdsAllocatedBeforeWrites ==
    /\ Issued("insert-transactions-batch") # {} =>
          \A t \in Range(data.transactions) : Mapped(t.entityId)
    /\ \A b \in Batches : \A w \in Range(b.transactions) : \A t \in SourcesOf(w) :
          (\E u \in Range(data.transactions) :
              u.entityId = t.transferTransactionId) =>
              /\ Mapped(t.transferTransactionId)
              /\ w.transfer_id = entityIdMap[t.transferTransactionId]

\* C4's case: a transaction written with the id of a transfer counterpart
\* that is tombstoned, or that comes after it in the document.
C4_TransferResolvedOutOfOrder ==
    \E b \in lBatches : \E w \in Range(b.transactions) : \E t \in SourcesOf(w) :
        /\ Truthy(w.transfer_id)
        /\ \E i \in 1..Len(data.transactions) : \E j \in 1..Len(data.transactions) :
              /\ data.transactions[i] = t
              /\ data.transactions[j].entityId = t.transferTransactionId
              /\ data.transactions[j].isTombstone
              /\ i < j

\* The positions of the Ledger's categories that the importer created, and
\* the subcategory each comes from.
Imported ==
    {i \in 1..Len(lCategories) :
        \E c \in Range(AllSubCategories(data.masterCategories)) :
            Get(entityIdMap, c.entityId) = lCategories[i].id}

SourceOf(i) ==
    CHOOSE c \in Range(AllSubCategories(data.masterCategories)) :
        Get(entityIdMap, c.entityId) = lCategories[i].id

\* C5: a group has at most one create-category call in flight; the
\* categories the Ledger holds for a group are, top to bottom, in ascending
\* sortableIndex order; and after the stage every live subcategory of a
\* created group is in its group.
C5_SubcategoriesSequentialDescending ==
    /\ \A m \in DOMAIN catInflight : Cardinality(catInflight[m]) <= 1
    /\ \A i \in Imported : \A j \in Imported :
          (i < j /\ lCategories[i].group_id = lCategories[j].group_id) =>
              SourceOf(i).sortableIndex <= SourceOf(j).sortableIndex
    /\ Len(stageLog) >= 3 =>
          \A mc \in Range(data.masterCategories) :
              LiveOutflow(mc) =>
                  \A c \in Range(mc.subCategories) :
                      ~c.isTombstone =>
                          \E i \in Imported :
                              /\ lCategories[i].id = Get(entityIdMap, c.entityId)
                              /\ lCategories[i].group_id =
                                     Get(entityIdMap, mc.entityId)

\* C5's case: two categories of different sort indexes created in one group,
\* and between their creations a category created in another group.
C5_GroupsInterleaved ==
    \E x \in Imported : \E y \in Imported : \E z \in Imported :
        /\ lCategories[x].group_id = lCategories[y].group_id
        /\ lCategories[x].group_id # lCategories[z].group_id
        /\ SourceOf(x).sortableIndex < SourceOf(y).sortableIndex
        /\ lCategories[y].id < lCategories[z].id
        /\ lCategories[z].id < lCategories[x].id

\* C6: create-category-group is issued for exactly the master categories
\* that are OUTFLOW, live and have a live subcategory; any other master
\* category gets no registry entry, and none of its subcategories gets a
\* registry entry or a create-category call.
C6_GroupsOnlyForLiveOutflow ==
    /\ \A c \in Issued("create-category-group") :
          \E mc \in Range(data.masterCategories) :
              mc.entityId = c.src /\ LiveOutflow(mc)
    /\ Len(stageLog) >= 2 =>
          \A mc \in Range(data.masterCategories) :
              LiveOutflow(mc) =>
                  \E c \in Issued("create-category-group") : c.src = mc.entityId
    /\ \A mc \in Range(data.masterCategories) :
          ~LiveOutflow(mc) =>
              /\ mc.entityId \notin DOMAIN entityIdMap
              /\ \A c \in Range(mc.subCategories) :
                    /\ c.entityId \notin DOMAIN entityIdMap
                    /\ \A d \in Issued("create-category") : d.src # c.entityId

\* C6's case: a finished run over a live master category with a live
\* subcategory that is not OUTFLOW, beside one that became a group.
C6_InflowMasterSkipped ==
    /\ stage = "done"
    /\ \E mc \in Range(data.masterCategories) :
          /\ mc.type # "OUTFLOW"
          /\ ~mc.isTombstone
          /\ \E c \in Range(mc.subCategories) : ~c.isTombstone
    /\ \E mc \in Range(data.masterCategories) : Mapped(mc.entityId)

\* Whether the ids of the transactions have been allocated.
Allocated ==
    /\ data.transactions # <<>>
    /\ \A t \in Range(data.transactions) : Mapped(t.entityId)

\* Whether a source transaction is a transfer leg.
TransferLeg(t) == Mapped(t.transferTransactionId)

\* The Ledger's payees for transfers to the account a transaction names.
TransferPayeesOf(t) ==
    {p \in Range(lPayees) :
        p.transfer_acct = Get(entityIdMap, t.targetAccountId)}

\* C7: a written transfer leg carries as payee_id the id of a Ledger payee
\* whose transfer_acct is the target id of its targetAccountId; a live
\* transfer leg with no such payee makes the run fail, and no batch is
\* issued for its account.
C7_TransferLegPayee ==
    /\ \A b \in Batches : \A w \in Range(b.transactions) : \A t \in SourcesOf(w) :
          TransferLeg(t) =>
              /\ Truthy(w.payee_id)
              /\ \E p \in TransferPayeesOf(t) : p.id = w.payee_id
    /\ Allocated =>
          \A t \in Range(data.transactions) :
              (~t.isTombstone /\ TransferLeg(t) /\ TransferPayeesOf(t) = {}) =>
                  /\ stage = "failed"
                  /\ \A b \in Batches : b.accountId # t.accountId

\* C7's case: a transfer leg written to the Ledger.
C7_TransferLegWritten ==
    \E b \in lBatches : \E w \in Range(b.transactions) : \E t \in SourcesOf(w) :
        /\ TransferLeg(t)
        /\ Truthy(w.transfer_id)
        /\ \E p \in TransferPayeesOf(t) : p.id = w.payee_id

\* Whether the Ledger reports the account of a batch as off budget.
OffBudgetBatch(b) == \E a \in Range(lAccounts) : a.id = b.acct /\ a.offbudget

\* C8: a transaction written into an off-budget account has category_id null.
C8_OffBudgetNoCategory ==
    \A b \in Batches : \A w \in Range(b.transactions) :
        OffBudgetBatch(b) => w.category_id = Null

\* C8's case: a transaction whose categoryId is a mapped category, written
\* into an off-budget account.
C8_MappedCategorySuppressed ==
    \E b \in lBatches : \E w \in Range(b.transactions) : \E t \in SourcesOf(w) :
        /\ OffBudgetBatch(b)
        /\ Mapped(t.categoryId)
        /\ w.category_id = Null

(***************************************************************************)
(* Properties of failures (checked under Spec).                            *)
(***************************************************************************)

\* The account ids that source transactions name.
TransactionAccounts == {t.accountId : t \in Range(data.transactions)}

\* Whether an account id has no target account: no registry entry, or an
\* entry that is not the id of an account of the Ledger.
NoTargetAccount(accountId) ==
    FindAccount(lAccounts, Get(entityIdMap, accountId)) = 0

\* C11: once importTransactions has mapped the transactions, every account id
\* that a source transaction names and that has no target account has made
\* doImport fail (with the missing-account error, or with the error a
\* transaction threw before the account was looked up) and has no
\* insert-transactions-batch call, also when all of its transactions are
\* tombstoned.
C11_UnmappedAccountFails ==
    Allocated =>
        \A accountId \in TransactionAccounts :
            NoTargetAccount(accountId) =>
                /\ stage = "failed"
                /\ error \in {"MissingAccount", "UnresolvedTransferPayee"}
                /\ \A c \in Issued("insert-transactions-batch") :
                      c.src # accountId

\* The stage of doImport that issues a Ledger call, as its position in
\* StageOrder.
StageOf(op) ==
    CASE op = "create-account" -> 1
      [] op \in {"create-category-group", "create-category"} -> 2
      [] op = "create-payee" -> 3
      [] op = "insert-transactions-batch" -> 4
      [] op \in {"set-budget-amount", "set-budget-carryover"} -> 5

\* The fatal conditions of importTransactions.
TransactionStageErrors ==
    {"MissingAccount", "UnresolvedTransferPayee", "MissingIncome"}

\* C12: a fatal condition makes doImport fail, and a failed doImport has
\* issued no Ledger call of a stage after the one that failed; after a
\* failure in the transaction stage no set-budget-amount and no
\* set-budget-carryover call has been issued or performed, and the budget
\* stage has not been entered.
C12_FailureAbortsLaterStages ==
    /\ error # "none" <=> stage = "failed"
    /\ \A c \in issued : StageOf(c.op) <= Len(stageLog)
    /\ error \in TransactionStageErrors =>
          /\ Len(stageLog) = 4
          /\ Issued("set-budget-amount") = {}
          /\ Issued("set-budget-carryover") = {}
          /\ lBudget = {} /\ lCarryover = {} /\ budgetTasks = {}

\* C12's case: doImport failed with the missing-account error while the
\* batch of another account was in flight, that batch has been performed
\* since, and the document holds a month and categories the budget stage
\* would have set amounts for.
C12_FailedWithBatchPerformed ==
    /\ stage = "failed"
    /\ error = "MissingAccount"
    /\ lBatches # {}
    /\ txPending = {}
    /\ data.monthlyBudgets # <<>>
    /\ ActiveCategories # {}

(***************************************************************************)
(* Properties of importYNAB4 (checked under SpecYNAB4).                    *)
(***************************************************************************)

\* Whether the Ledger is as runImport opened it.
LedgerUntouched ==
    /\ lAccounts = <<>> /\ lPayees = <<>> /\ lBatches = {}
    /\ lGroups = <<IncomeGroup>> /\ lCategories = <<IncomeCategory>>
    /\ lBudget = {} /\ lCarryover = {}

\* C13: device selection fails exactly when no record parses with full
\* knowledge; after it failed, and before it ran, doImport has not started,
\* no Ledger call has been issued and the Ledger is untouched; with a
\* full-knowledge record among the files the selection returns the device of
\* one, whatever unparsable records stand beside it.
C13_NoDeviceAbortsBeforeLedger ==
    /\ selected # "idle" => (selected = "throw" <=> FullKnowledge = {})
    /\ selected \in {"idle", "throw"} =>
          /\ stage = "start"
          /\ issued = {}
          /\ LedgerUntouched
    /\ (selected # "idle" /\ FullKnowledge # {}) =>
          \E i \in FullKnowledge : selected = files[i].deviceGUID

\* C13's case: the selection failed over files of which one does not parse
\* and another parses without full knowledge.
C13_NoDeviceLeft ==
    /\ selected = "throw"
    /\ \E i \in 1..Len(files) : ~files[i].parses
    /\ \E i \in 1..Len(files) : files[i].parses /\ ~files[i].hasFullKnowledge

(***************************************************************************)
(* Properties of importAccounts (checked under Spec).                      *)
(***************************************************************************)
LiveAccounts == {i \in 1..Len(data.accounts) : ~data.accounts[i].isTombstone}

\* The Ledger's accounts that carry an id.
LedgerAccounts(id) == {k \in 1..Len(lAccounts) : lAccounts[k].id = id}

\* C14: once importAccounts has run up to its await, the create-account calls
\* issued are one per live account (those performed and those in flight
\* together number the live accounts); a live account whose call returned is
\* registered under the id of the one Ledger account that carries its name,
\* whose off-budget flag is false when onBudget is true and true when it is
\* false or missing, and whose closed flag is the hidden flag; two accounts
\* never share an id; after the stage every live account is registered; a
\* tombstoned account has no call and no registry entry.
C14_OneAccountPerLiveAccount ==
    Len(stageLog) >= 1 =>
        /\ Len(lAccounts) + Cardinality(acctPending) = Cardinality(LiveAccounts)
        /\ {c.src : c \in Issued("create-account")} =
              {data.accounts[i].entityId : i \in LiveAccounts}
        /\ \A i \in LiveAccounts :
              LET a == data.accounts[i]
              IN  /\ i \in acctPending <=> a.entityId \notin DOMAIN entityIdMap
                  /\ Len(stageLog) >= 2 => Mapped(a.entityId)
                  /\ Mapped(a.entityId) =>
                        /\ Cardinality(LedgerAccounts(entityIdMap[a.entityId])) = 1
                        /\ \A k \in LedgerAccounts(entityIdMap[a.entityId]) :
                              /\ lAccounts[k].name = a.accountName
                              /\ lAccounts[k].offbudget =
                                    ~("onBudget" \in DOMAIN a /\ a.onBudget = TRUE)
                              /\ lAccounts[k].closed =
                                    ("hidden" \in DOMAIN a /\ a.hidden = TRUE)
                        /\ \A j \in LiveAccounts \ {i} :
                              Get(entityIdMap, data.accounts[j].entityId)
                                  # entityIdMap[a.entityId]
        /\ \A i \in (1..Len(data.accounts)) \ LiveAccounts :
              /\ data.accounts[i].entityId \notin DOMAIN entityIdMap
              /\ \A c \in Issued("create-account") :
                    c.src # data.accounts[i].entityId

\* C14's case: three live accounts whose calls returned against the order
\* of the document, the first with no onBudget flag and hidden, created off
\* budget and closed, the second on budget and not hidden.
C14_MissingFlagOutOfOrder ==
    /\ Len(stageLog) >= 2
    /\ Len(lAccounts) = 3
    /\ "onBudget" \notin DOMAIN data.accounts[1]
    /\ Flag(data.accounts[1], "hidden")
    /\ Flag(data.accounts[2], "onBudget")
    /\ "hidden" \notin DOMAIN data.accounts[2]
    /\ entityIdMap["a3"] < entityIdMap["a2"]
    /\ entityIdMap["a2"] < entityIdMap["a1"]
    /\ \E k \in LedgerAccounts(entityIdMap["a1"]) :
          lAccounts[k].offbudget /\ lAccounts[k].closed
    /\ \E k \in LedgerAccounts(entityIdMap["a2"]) :
          ~lAccounts[k].offbudget /\ ~lAccounts[k].closed

(***************************************************************************)
(* Properties of repeated runs (checked under SpecTwice).                  *)
(***************************************************************************)

\* How many items of one of the Ledger's lists carry a name.
CountByName(list, name) == Cardinality({k \in 1..Len(list) : list[k].name = name})

\* The runs of doImport that have resolved.
RunsDone == Len(stageLog) \div Len(StageOrder)

\* The source entities that a run creates in the Ledger.
LiveGroups == {mc \in Range(data.masterCategories) : LiveOutflow(mc)}

LiveCategories ==
    UNION {{c \in Range(mc.subCategories) : ~c.isTombstone} : mc \in LiveGroups}

LivePayees == {p \in Range(data.payees) : ~p.isTombstone}

\* C15: a run of doImport starts with an empty registry; a run, the second
\* as the first, issues a create-account call for every live account as it
\* starts, and when it has resolved it has issued a create call for every
\* qualifying master category, every live subcategory of one and every live
\* payee; the Ledger then holds, for each of these entities, as many
\* entities of its name as runs have resolved: two after the second run.
C15_SecondRunDuplicates ==
    /\ stage = "start" => entityIdMap = <<>>
    /\ stage # "start" =>
          {c.src : c \in Issued("create-account")} =
              {data.accounts[i].entityId : i \in LiveAccounts}
    /\ stage = "done" =>
          /\ {c.src : c \in Issued("create-category-group")} =
                {mc.entityId : mc \in LiveGroups}
          /\ {c.src : c \in Issued("create-category")} =
                {c.entityId : c \in LiveCategories}
          /\ {c.src : c \in Issued("create-payee")} =
                {p.entityId : p \in LivePayees}
          /\ \A i \in LiveAccounts :
                CountByName(lAccounts, data.accounts[i].accountName) = RunsDone
          /\ \A mc \in LiveGroups : CountByName(lGroups, mc.name) = RunsDone
          /\ \A c \in LiveCategories : CountByName(lCategories, c.name) = RunsDone
          /\ \A p \in LivePayees : CountByName(lPayees, p.name) = RunsDone
          /\ Len(lAccounts) = RunsDone * Cardinality(LiveAccounts)
          /\ Len(lPayees) = RunsDone * Cardinality(LivePayees)

\* C15's case: the second run has resolved, over a document with two live
\* accounts and three live payees: the Ledger holds four accounts and six
\* payees, and the registry holds the ids of the second run.
C15_SecondRunResolved ==
    /\ stage = "done"
    /\ RunsDone = 2
    /\ Len(lAccounts) = 4
    /\ Len(lPayees) = 6
    /\ \A k \in LedgerAccounts(entityIdMap["a1"]) : k > 2

(***************************************************************************)
(* Further properties of importBudgets (checked under Spec).               *)
(***************************************************************************)

\* Whether a month holds a live entry of a category with a marker.
HasMarker(budget, categoryId, marker) ==
    \E i \in LiveEntries(budget, categoryId) :
        budget.monthlySubCategoryBudgets[i].overspendingHandling = marker

\* C16: after importBudgets, for every active category and every month with a
\* Confined entry of it, set-budget-carryover(month, category, true) has been
\* issued for that month and for every later month of the document that no
\* AffectsBuffer entry of the category separates from it (the AffectsBuffer
\* month excluded), whatever the months in between hold for the category.
C16_CarryoverUntilTurnedOff ==
    stage = "done" =>
        \A c \in ActiveCategories : \A b1 \in Range(data.monthlyBudgets) :
            HasMarker(b1, c.entityId, "Confined") =>
                \A b2 \in Range(data.monthlyBudgets) :
                    (/\ b1.month <= b2.month
                     /\ ~\E b3 \in Range(data.monthlyBudgets) :
                           /\ b1.month < b3.month
                           /\ b3.month <= b2.month
                           /\ HasMarker(b3, c.entityId, "AffectsBuffer"))
                    => \E call \in Issued("set-budget-carryover") :
                          /\ call.month = monthFromDate(b2.month)
                          /\ call.target = entityIdMap[c.entityId]
                          /\ call.val = 1

(***************************************************************************)
(* Further properties of importTransactions (checked under Spec).          *)
(***************************************************************************)

\* The ids of the Ledger's categories named Income.
IncomeIds == {c.id : c \in {d \in Range(lCategories) : d.name = "Income"}}

\* Whether a category_id is what the specification resolves a source
\* categoryId to.
ResolvesTo(category_id, categoryId) ==
    IF categoryId \in {Missing, SplitCategory} THEN category_id = Null
    ELSE IF categoryId \in {ImmediateIncome, DeferredIncome}
            THEN category_id \in IncomeIds
    ELSE category_id = Get(entityIdMap, categoryId)

\* C17: every transaction handed to addTransactions for an account that is
\* not off budget carries the resolution of its source categoryId: null for
\* a missing one and the split placeholder, the Income category's id for the
\* income placeholders, the registry's entry (or absence) otherwise; every
\* split line carries the resolution of its own categoryId, in off-budget
\* accounts too; and a transaction has one split line per source
\* sub-transaction, none at all without a subTransactions field.
C17_CategoryResolution ==
    \A b \in Batches : \A w \in Range(b.transactions) : \A t \in SourcesOf(w) :
        /\ ~OffBudgetBatch(b) => ResolvesTo(w.category_id, t.categoryId)
        /\ IF "subTransactions" \in DOMAIN t
              THEN /\ Len(w.subtransactions) = Len(t.subTransactions)
                   /\ \A i \in 1..Len(t.subTransactions) :
                         ResolvesTo(w.subtransactions[i].category_id,
                                    t.subTransactions[i].categoryId)
              ELSE w.subtransactions = Undefined

\* C17's case: a finished run that wrote, into an account on budget, a
\* transaction of an unmapped category with an income split line and a split
\* line without category, and, into an off-budget account, a transaction
\* whose split line carries a mapped category.
C17_UnmappedAndSplitWritten ==
    /\ stage = "done"
    /\ \E b \in lBatches : \E w \in Range(b.transactions) : \E t \in SourcesOf(w) :
          /\ ~OffBudgetBatch(b)
          /\ t.categoryId = "c9"
          /\ w.category_id = Undefined
          /\ "subTransactions" \in DOMAIN t
          /\ Len(w.subtransactions) = 2
          /\ w.subtransactions[1].category_id \in IncomeIds
          /\ w.subtransactions[2].category_id = Null
    /\ \E b \in lBatches : \E w \in Range(b.transactions) : \E t \in SourcesOf(w) :
          /\ OffBudgetBatch(b)
          /\ w.category_id = Null
          /\ "subTransactions" \in DOMAIN t
          /\ Len(w.subtransactions) = 1
          /\ Mapped("c1")
          /\ w.subtransactions[1].category_id = entityIdMap["c1"]

\* What importBudgets processes for a category in a month that holds at most
\* one entry of it: the marker of its live entry, the missing marker of the
\* zero entry when the month has no entry of it, "skipped" when its entry is
\* tombstoned.
MarkerIn(budget, categoryId) ==
    IF LiveEntries(budget, categoryId) # {}
       THEN LET i == CHOOSE j \in LiveEntries(budget, categoryId) : TRUE
            IN  budget.monthlySubCategoryBudgets[i].overspendingHandling
    ELSE IF \E e \in Range(budget.monthlySubCategoryBudgets) :
                e.categoryId = categoryId
       THEN "skipped"
    ELSE Missing

\* The carryover flag of a category after the first k months, replayed one
\* entry at a time from the document alone.
RECURSIVE ReplayFlag(_, _)
ReplayFlag(categoryId, k) ==
    IF k = 0 THEN FALSE
    ELSE LET marker == MarkerIn(budgets[k], categoryId)
         IN  CASE marker = "Confined" -> TRUE
               [] marker = "AffectsBuffer" -> FALSE
               [] OTHER -> ReplayFlag(categoryId, k - 1)

\* Whether the replay pushes carryover for a category in the k-th month.
ReplayPush(categoryId, k) ==
    LET marker == MarkerIn(budgets[k], categoryId)
    IN  \/ marker = "Confined"
        \/ marker \notin {"AffectsBuffer", "skipped"} /\ ReplayFlag(categoryId, k - 1)

\* The categories for which a carryover push of a month has been issued.
PushedIn(month) ==
    {c.src : c \in {d \in Issued("set-budget-carryover") : d.month = month}}

WrittenIds == UNION {{w.id : w \in Range(b.transactions)} : b \in lBatches}

\* C19: in a finished run, every transfer_id other than null that a written
\* transaction carries is the id of a written transaction, also when the
\* transfer counterpart is tombstoned in the document.
C19_TransferIdsClosed ==
    stage = "done" =>
        \A b \in lBatches : \A w \in Range(b.transactions) :
            w.transfer_id # Null => w.transfer_id \in WrittenIds

(***************************************************************************)
(* Tombstones (checked under Spec).                                        *)
(***************************************************************************)

\* Whether every item of the given entity id in a set of source records is
\* live.
LiveIn(records, entityId) ==
    \A r \in records : r.entityId = entityId => ~r.isTombstone

\* The months of the document whose month is the given one.
MonthsOf(month) ==
    {b \in Range(data.monthlyBudgets) : monthFromDate(b.month) = month}

\* C20: no call reaches the Ledger from a tombstoned source entity: every
\* create-account, create-category and create-payee call comes from a live
\* account, subcategory and payee; every transaction handed to
\* addTransactions comes from a live transaction and each of its split lines
\* from a live sub-transaction; and no set-budget-amount or
\* set-budget-carryover call comes from a tombstoned monthly entry.
C20_NoTombstoneReachesLedger ==
    /\ \A c \in Issued("create-account") :
          LiveIn(Range(data.accounts), c.src)
    /\ \A c \in Issued("create-category") :
          LiveIn(Range(AllSubCategories(data.masterCategories)), c.src)
    /\ \A c \in Issued("create-payee") :
          LiveIn(Range(data.payees), c.src)
    /\ \A b \in Batches : \A w \in Range(b.transactions) : \A t \in SourcesOf(w) :
          /\ ~t.isTombstone
          /\ "subTransactions" \in DOMAIN t =>
                \A i \in 1..Len(w.subtransactions) :
                    ~t.subTransactions[i].isTombstone
    /\ \A c \in Issued("set-budget-amount") \cup Issued("set-budget-carryover") :
          \A b \in MonthsOf(c.month) :
              \A e \in Range(b.monthlySubCategoryBudgets) :
                  e.categoryId = c.src => ~e.isTombstone

=============================================================================
